---- MODULE Spec2Model ----
(***************************************************************************)
(* LiquidGlass (src/src/index.js): one class that projects a configuration *)
(* onto a DOM element as CSS custom properties and an SVG filter, with      *)
(* optional pointer dragging.  The state is the document (the SVG filter    *)
(* container and its children), the elements handed to the constructor,     *)
(* and the LiquidGlass objects created so far.                              *)
(***************************************************************************)
EXTENDS Integers, Sequences, FiniteSets

VARIABLES
  inst,        \* the LiquidGlass objects created so far, in creation order
  surf,        \* element -> its class flag and inline style
  containers,  \* the <svg id="liquid-glass-svg-filters"> nodes of document.body,
               \* each the sequence of its <filter> children (owner's index)
  head,        \* the ids of the <style> children of document.head, in order
  pressed,     \* history: element -> the pointer-down on it that no pointer-up
               \* has followed yet (its event and rectangle), if any
  hook,        \* the two refs of one useLiquidGlass usage and whether its
               \* effect has run with its cleanup still to come
  calls,       \* number of public calls and events made so far
  last         \* the most recent call: its name, receiver, arguments, outcome

vars == <<inst, surf, containers, head, pressed, hook, calls, last>>

-----------------------------------------------------------------------------
(* JavaScript values.  A value carries its type tag and the text ToString   *)
(* gives for it; numbers are kept by their decimal text.                    *)

Str(s) == [t |-> "string", s |-> s]
Num(s) == [t |-> "number", s |-> s]
Bool(b) == [t |-> "boolean", s |-> IF b THEN "true" ELSE "false"]
UNDEFINED == [t |-> "undefined", s |-> "undefined"]
NULL == [t |-> "null", s |-> "null"]

\* A reference to the DOM element named e.
Element(e) == [t |-> "object", s |-> e]

\* String(v), as a template literal or setAttribute converts its argument.
ToString(v) == v.s

\* ToBoolean(v): "", 0, NaN, null, undefined and false are falsy.
Truthy(v) ==
  CASE v.t = "string" -> v.s # ""
    [] v.t = "number" -> v.s \notin {"0", "-0", "NaN"}
    [] v.t = "boolean" -> v.s = "true"
    [] v.t = "object" -> TRUE
    [] OTHER -> FALSE

\* a || b
Or(a, b) == IF Truthy(a) THEN a ELSE b

\* o.f for an object literal o: undefined when the property is missing.
Get(o, f) == IF f \in DOMAIN o THEN o[f] ELSE UNDEFINED

\* x !== undefined
Given(x) == x.t # "undefined"

-----------------------------------------------------------------------------
(* Characters and the regular expression of updateTint.                     *)

CharAt(s, i) == IF i >= 1 /\ i <= Len(s) THEN SubSeq(s, i, i) ELSE ""

IsDigit(c) == c \in {"0", "1", "2", "3", "4", "5", "6", "7", "8", "9"}

IsSpace(c) == c \in {" ", "\t", "\n", "\r", "\f"}

\* The index after the longest run of digits starting at i (\d+ is greedy).
RECURSIVE DigitsEnd(_, _)
DigitsEnd(s, i) == IF IsDigit(CharAt(s, i)) THEN DigitsEnd(s, i + 1) ELSE i

\* The index after the longest run of white space starting at i (\s*).
RECURSIVE SpacesEnd(_, _)
SpacesEnd(s, i) == IF IsSpace(CharAt(s, i)) THEN SpacesEnd(s, i + 1) ELSE i

\* /rgba?\((\d+),\s*(\d+),\s*(\d+)/ tried at position p: the three groups,
\* or <<>> when the pattern does not match there.
MatchAt(s, p) ==
  LET a  == IF CharAt(s, p + 3) = "a" THEN p + 4 ELSE p + 3
      d1 == a + 1
      e1 == DigitsEnd(s, d1)
      d2 == SpacesEnd(s, e1 + 1)
      e2 == DigitsEnd(s, d2)
      d3 == SpacesEnd(s, e2 + 1)
      e3 == DigitsEnd(s, d3)
  IN  IF /\ p + 2 <= Len(s)
         /\ SubSeq(s, p, p + 2) = "rgb"
         /\ CharAt(s, a) = "("
         /\ e1 > d1 /\ CharAt(s, e1) = ","
         /\ e2 > d2 /\ CharAt(s, e2) = ","
         /\ e3 > d3
      THEN <<SubSeq(s, d1, e1 - 1), SubSeq(s, d2, e2 - 1), SubSeq(s, d3, e3 - 1)>>
      ELSE <<>>

\* String.prototype.match with the (unanchored) pattern: the leftmost match.
RECURSIVE MatchFrom(_, _)
MatchFrom(s, p) ==
  IF p > Len(s) THEN <<>>
  ELSE IF MatchAt(s, p) # <<>> THEN MatchAt(s, p)
  ELSE MatchFrom(s, p + 1)

rgbaMatch(s) == MatchFrom(s, 1)

\* `rgba(${m[1]}, ${m[2]}, ${m[3]}, ${opacity})`
newColor(m, opacity) ==
  "rgba(" \o m[1] \o ", " \o m[2] \o ", " \o m[3] \o ", " \o ToString(opacity) \o ")"

-----------------------------------------------------------------------------
(* The configuration.                                                       *)

Fields ==
  {"shadowOffset", "shadowBlur", "shadowSpread", "shadowColor", "tintColor",
   "tintOpacity", "frostBlur", "noiseFrequency", "distortionStrength",
   "outerShadowBlur", "outerShadowColor", "borderRadius", "draggable"}

\* The right-hand operands of the constructor's option expressions, which are
\* the defaults of the README's Options table.
Defaults ==
  [shadowOffset |-> Str("0px"),
   shadowBlur |-> Str("20px"),
   shadowSpread |-> Str("-5px"),
   shadowColor |-> Str("rgba(255, 255, 255, 0.8)"),
   tintColor |-> Str("rgba(255, 255, 255, 0.4)"),
   tintOpacity |-> Num("0.4"),
   frostBlur |-> Str("2px"),
   noiseFrequency |-> Num("0.008"),
   distortionStrength |-> Num("77"),
   outerShadowBlur |-> Str("24px"),
   outerShadowColor |-> Str("rgba(0, 0, 0, 0.2)"),
   borderRadius |-> Str("20px"),
   draggable |-> Bool(FALSE)]

\* One field of this.options: options.f || default.
optionOr(supplied, default) == Or(supplied, default)

\* this.options = { f: options.f || default, ... }
constructorOptions(o) == [f \in Fields |-> optionOr(Get(o, f), Defaults[f])]

\* The token Math.random().toString(36).substr(2, 9) yields is any of the
\* strings the generator can produce; the constructor looks at no earlier id.
svgFilterId(token) == "glass-distortion-" \o token

-----------------------------------------------------------------------------
(* The element's inline style: the ten custom properties, "" when the        *)
(* property is not set (what getPropertyValue reads then).                   *)

StyleVars ==
  {"--shadow-offset", "--shadow-blur", "--shadow-spread", "--shadow-color",
   "--tint-color", "--frost-blur", "--outer-shadow-blur", "--outer-shadow-color",
   "--border-radius", "--glass-filter-url"}

NoStyle == [v \in StyleVars |-> ""]

\* The DOMString setProperty receives: null converts to "", anything else by
\* ToString.
CssText(v) == IF v.t = "null" THEN "" ELSE ToString(v)

\* style.setProperty(name, v); an empty value removes the property.
setProperty(style, name, v) == [style EXCEPT ![name] = CssText(v)]

\* style.removeProperty(name)
removeProperty(style, name) == [style EXCEPT ![name] = ""]

\* Mutant: the frost variable is given the shadow blur.
applyStylesSlip(style, opts, id) ==
  LET s1 == setProperty(style, "--shadow-offset", opts.shadowOffset)
      s2 == setProperty(s1, "--shadow-blur", opts.shadowBlur)
      s3 == setProperty(s2, "--shadow-spread", opts.shadowSpread)
      s4 == setProperty(s3, "--shadow-color", opts.shadowColor)
      s5 == setProperty(s4, "--tint-color", opts.tintColor)
      s6 == setProperty(s5, "--frost-blur", opts.shadowBlur)
      s7 == setProperty(s6, "--outer-shadow-blur", opts.outerShadowBlur)
      s8 == setProperty(s7, "--outer-shadow-color", opts.outerShadowColor)
      s9 == setProperty(s8, "--border-radius", opts.borderRadius)
  IN  setProperty(s9, "--glass-filter-url", Str("url(#" \o id \o ")"))

applyStyles(style, opts, id) ==
  LET s1 == setProperty(style, "--shadow-offset", opts.shadowOffset)
      s2 == setProperty(s1, "--shadow-blur", opts.shadowBlur)
      s3 == setProperty(s2, "--shadow-spread", opts.shadowSpread)
      s4 == setProperty(s3, "--shadow-color", opts.shadowColor)
      s5 == setProperty(s4, "--tint-color", opts.tintColor)
      s6 == setProperty(s5, "--frost-blur", opts.frostBlur)
      s7 == setProperty(s6, "--outer-shadow-blur", opts.outerShadowBlur)
      s8 == setProperty(s7, "--outer-shadow-color", opts.outerShadowColor)
      s9 == setProperty(s8, "--border-radius", opts.borderRadius)
  IN  setProperty(s9, "--glass-filter-url", Str("url(#" \o id \o ")"))

\* Mutant: the list misses its last entry.
stylesToRemoveShort == StyleVars \ {"--glass-filter-url"}

\* The ten names destroy() lists.
stylesToRemove == StyleVars

RECURSIVE removeAll(_, _)
removeAll(style, props) ==
  IF props = {} THEN style
  ELSE LET p == CHOOSE q \in props : TRUE
       IN  removeAll(removeProperty(style, p), props \ {p})

-----------------------------------------------------------------------------
(* The SVG filter.                                                          *)

\* The <filter> element createSVGFilter builds, with its three primitives in
\* appendChild order.
filterElement(id, opts) ==
  [id |-> id, x |-> "0%", y |-> "0%", width |-> "100%", height |-> "100%",
   children |->
     << [tag |-> "feTurbulence", type |-> "fractalNoise",
         baseFrequency |-> ToString(opts.noiseFrequency),
         numOctaves |-> "3", result |-> "noise"],
        [tag |-> "feGaussianBlur", in |-> "noise", stdDeviation |-> "0.6",
         result |-> "blurred"],
        [tag |-> "feDisplacementMap", in |-> "SourceGraphic", in2 |-> "blurred",
         scale |-> ToString(opts.distortionStrength),
         xChannelSelector |-> "R", yChannelSelector |-> "G"] >>]

\* Mutant: a container is appended on every call, found or not.
ensureContainerAlways(cs) == Append(cs, <<>>)

\* document.getElementById("liquid-glass-svg-filters") finds a container or not;
\* a new one is appended to document.body only when none is found.
ensureContainer(cs) == IF Len(cs) = 0 THEN <<(<<>>)>> ELSE cs

\* svgContainer.appendChild(filter), svgContainer being the first node with the
\* id; the child is recorded by the index of the object that owns it.
appendFilter(cs, i) == [cs EXCEPT ![1] = Append(@, i)]

createSVGFilter(cs, i) == appendFilter(ensureContainer(cs), i)

\* the child indices of a sequence that hold i
RECURSIVE without(_, _)
without(seq, i) ==
  IF seq = <<>> THEN <<>>
  ELSE IF Head(seq) = i THEN without(Tail(seq), i)
  ELSE <<Head(seq)>> \o without(Tail(seq), i)

\* this.svgFilter.parentNode: the container holding object i's filter, 0 if none
parentNode(cs, i) ==
  IF \E c \in 1..Len(cs) : \E k \in 1..Len(cs[c]) : cs[c][k] = i
  THEN CHOOSE c \in 1..Len(cs) : \E k \in 1..Len(cs[c]) : cs[c][k] = i
  ELSE 0

\* Mutant: the filter is looked up by its id and the first match removed.
removeFilterById(cs, i) ==
  LET same(k) == inst[cs[1][k]].svgFilterId = inst[i].svgFilterId
  IN  IF cs # <<>> /\ \E k \in 1..Len(cs[1]) : same(k)
      THEN LET k == CHOOSE k \in 1..Len(cs[1]) :
                      same(k) /\ \A j \in 1..(k - 1) : ~same(j)
           IN  [cs EXCEPT ![1] = without(@, cs[1][k])]
      ELSE cs

\* Mutant: the filter is never removed.
removeFilterNever(cs, i) == cs

\* parentNode.removeChild(this.svgFilter), when there is a parentNode
removeFilter(cs, i) ==
  IF parentNode(cs, i) # 0
  THEN [cs EXCEPT ![parentNode(cs, i)] = without(@, i)]
  ELSE cs

\* element.querySelector(tag): the position of the first child with the tag
querySelector(filter, tag) ==
  IF \E k \in 1..Len(filter.children) : filter.children[k].tag = tag
  THEN CHOOSE k \in 1..Len(filter.children) :
         /\ filter.children[k].tag = tag
         /\ \A j \in 1..(k - 1) : filter.children[j].tag # tag
  ELSE 0

-----------------------------------------------------------------------------
(* Elements and LiquidGlass objects.                                        *)

\* const styleId = "liquid-glass-styles"
styleId == "liquid-glass-styles"

\* document.getElementById(id), for the children of document.head
getElementById(h, id) == \E k \in 1..Len(h) : h[k] = id

Surfaces == {"A", "B"}

\* An element no LiquidGlass has touched: no class, no custom property, no
\* inline cursor, position, left or top (<<>>: not set, <<n>>: n px).
FreshSurface ==
  [glass |-> FALSE, style |-> NoStyle, cursor |-> "", position |-> "",
   left |-> <<>>, top |-> <<>>]

\* The variables of makeDraggable's closure; <<>> is undefined, <<n>> the
\* number n.
NoDrag ==
  [isDragging |-> FALSE, startX |-> <<>>, startY |-> <<>>,
   initialX |-> <<>>, initialY |-> <<>>]

\* The object the constructor returns.  listening: the six listeners of
\* makeDraggable are registered; cleanup: this.cleanup is defined; destroyed
\* records that destroy() has been called (the class keeps no such flag).
LiquidGlass(el, o, token) ==
  LET opts == constructorOptions(o)
      id   == svgFilterId(token)
  IN  [element |-> el.s,
       options |-> opts,
       svgFilterId |-> id,
       svgFilter |-> filterElement(id, opts),
       cleanup |-> Truthy(opts.draggable),
       listening |-> Truthy(opts.draggable),
       drag |-> NoDrag,
       destroyed |-> FALSE]

\* init(): classList.add, createSVGFilter (on the document), applyStyles, and
\* makeDraggable's cursor when options.draggable is truthy.
init(s, g) ==
  [s EXCEPT !.glass = TRUE,
            !.style = applyStyles(@, g.options, g.svgFilterId),
            !.cursor = IF Truthy(g.options.draggable) THEN "grab" ELSE @]

Call(op, self, args, threw) ==
  [op |-> op, self |-> self, args |-> args, threw |-> threw]

\* Mutant: the element is tested after the container has been looked up.
constructorChecksLate(el, o, token) ==
  IF ~Truthy(el)
  THEN /\ last' = Call("new", 0, [element |-> el, options |-> o], "Error")
       /\ containers' = ensureContainer(containers)
       /\ UNCHANGED <<inst, surf>>
  ELSE LET g == LiquidGlass(el, o, token)
           i == Len(inst) + 1
       IN  /\ inst' = Append(inst, g)
           /\ containers' = createSVGFilter(containers, i)
           /\ surf' = [surf EXCEPT ![el.s] = init(@, g)]
           /\ last' = Call("new", i, [element |-> el, options |-> o], "")

\* new LiquidGlass(element, options): throws before anything else when the
\* element is falsy.
constructor(el, o, token) ==
  IF ~Truthy(el)
  THEN /\ last' = Call("new", 0, [element |-> el, options |-> o], "Error")
       /\ UNCHANGED <<inst, surf, containers>>
  ELSE LET g == LiquidGlass(el, o, token)
           i == Len(inst) + 1
       IN  /\ inst' = Append(inst, g)
           /\ containers' = createSVGFilter(containers, i)
           /\ surf' = [surf EXCEPT ![el.s] = init(@, g)]
           /\ last' = Call("new", i, [element |-> el, options |-> o], "")

\* The class exists once the module has been evaluated.
New(el, o, token, max) ==
  /\ getElementById(head, styleId)
  /\ calls < max
  /\ calls' = calls + 1
  /\ constructor(el, o, token)
  /\ UNCHANGED <<head, pressed, hook>>

-----------------------------------------------------------------------------
(* Update methods.  Each works on the pair of this.options and the inline   *)
(* style of this.element.                                                   *)

\* if (v !== undefined) { this.options[field] = v; setProperty(name, v) }
updateField(st, field, name, v) ==
  IF Given(v)
  THEN [options |-> [st.options EXCEPT ![field] = v],
        style |-> setProperty(st.style, name, v)]
  ELSE st

\* Mutant: the color branch writes the offset variable.
updateShadowSlip(st, a) ==
  LET s1 == updateField(st, "shadowBlur", "--shadow-blur", Get(a, "blur"))
      s2 == updateField(s1, "shadowSpread", "--shadow-spread", Get(a, "spread"))
      s3 == updateField(s2, "shadowColor", "--shadow-offset", Get(a, "color"))
  IN  updateField(s3, "shadowOffset", "--shadow-offset", Get(a, "offset"))

updateShadow(st, a) ==
  LET s1 == updateField(st, "shadowBlur", "--shadow-blur", Get(a, "blur"))
      s2 == updateField(s1, "shadowSpread", "--shadow-spread", Get(a, "spread"))
      s3 == updateField(s2, "shadowColor", "--shadow-color", Get(a, "color"))
  IN  updateField(s3, "shadowOffset", "--shadow-offset", Get(a, "offset"))

updateOuterShadow(st, a) ==
  LET s1 == updateField(st, "outerShadowBlur", "--outer-shadow-blur", Get(a, "blur"))
  IN  updateField(s1, "outerShadowColor", "--outer-shadow-color", Get(a, "color"))

\* Mutant: the blur is stored and the style variable is not set.
updateFrostStoreOnly(st, blur) ==
  [options |-> [st.options EXCEPT !.frostBlur = blur], style |-> st.style]

\* updateFrost(blur): no test of blur
updateFrost(st, blur) ==
  [options |-> [st.options EXCEPT !.frostBlur = blur],
   style |-> setProperty(st.style, "--frost-blur", blur)]

\* Mutant: the synthesized color is also stored as this.options.tintColor.
tintOpacityStepPersist(st, opacity) ==
  LET o1 == [st.options EXCEPT !.tintOpacity = opacity]
      c  == o1.tintColor
  IN  IF c.t # "string"
      THEN [options |-> o1, style |-> st.style, threw |-> "TypeError"]
      ELSE IF rgbaMatch(c.s) # <<>>
      THEN [options |-> [o1 EXCEPT !.tintColor = Str(newColor(rgbaMatch(c.s), opacity))],
            style |-> setProperty(st.style, "--tint-color",
                                  Str(newColor(rgbaMatch(c.s), opacity))),
            threw |-> ""]
      ELSE [options |-> o1, style |-> st.style, threw |-> ""]

\* The opacity branch of updateTint.  this.options.tintColor.match exists only
\* for a string: for any other value the call is a TypeError, raised after
\* tintOpacity has been assigned.
tintOpacityStep(st, opacity) ==
  LET o1 == [st.options EXCEPT !.tintOpacity = opacity]
      c  == o1.tintColor
  IN  IF c.t # "string"
      THEN [options |-> o1, style |-> st.style, threw |-> "TypeError"]
      ELSE IF rgbaMatch(c.s) # <<>>
      THEN [options |-> o1,
            style |-> setProperty(st.style, "--tint-color",
                                  Str(newColor(rgbaMatch(c.s), opacity))),
            threw |-> ""]
      ELSE [options |-> o1, style |-> st.style, threw |-> ""]

\* Mutant: the opacity branch runs before the color branch.
updateTintOpacityFirst(st, a) ==
  LET s0 == IF Given(Get(a, "opacity"))
            THEN tintOpacityStep(st, Get(a, "opacity"))
            ELSE [options |-> st.options, style |-> st.style, threw |-> ""]
      s1 == updateField([options |-> s0.options, style |-> s0.style],
                        "tintColor", "--tint-color", Get(a, "color"))
  IN  [options |-> s1.options, style |-> s1.style, threw |-> s0.threw]

\* The color branch, then the opacity branch; threw is the error raised, if any.
updateTint(st, a) ==
  LET s1 == updateField(st, "tintColor", "--tint-color", Get(a, "color"))
  IN  IF Given(Get(a, "opacity"))
      THEN tintOpacityStep(s1, Get(a, "opacity"))
      ELSE [options |-> s1.options, style |-> s1.style, threw |-> ""]

\* Mutant: the value is set as the blur stage's stdDeviation.
patchStageSmoothing(filter, tag, name, v) ==
  [filter EXCEPT !.children[2].stdDeviation = ToString(v)]

\* setAttribute(name, v) on the first child with the tag, if there is one
patchStage(filter, tag, name, v) ==
  LET k == querySelector(filter, tag)
  IN  IF k # 0
      THEN [filter EXCEPT !.children[k][name] = ToString(v)]
      ELSE filter

\* Mutant: the strength branch patches the noise stage's frequency.
updateDistortionSlip(g, a) ==
  LET f  == Get(a, "frequency")
      s  == Get(a, "strength")
      g1 == IF Given(f)
            THEN [g EXCEPT !.options.noiseFrequency = f,
                           !.svgFilter = patchStage(@, "feTurbulence", "baseFrequency", f)]
            ELSE g
  IN  IF Given(s)
      THEN [g1 EXCEPT !.options.distortionStrength = s,
                      !.svgFilter = patchStage(@, "feTurbulence", "baseFrequency", s)]
      ELSE g1

\* updateDistortion works on this.options and this.svgFilter
updateDistortion(g, a) ==
  LET f  == Get(a, "frequency")
      s  == Get(a, "strength")
      g1 == IF Given(f)
            THEN [g EXCEPT !.options.noiseFrequency = f,
                           !.svgFilter = patchStage(@, "feTurbulence", "baseFrequency", f)]
            ELSE g
  IN  IF Given(s)
      THEN [g1 EXCEPT !.options.distortionStrength = s,
                      !.svgFilter = patchStage(@, "feDisplacementMap", "scale", s)]
      ELSE g1

\* The state an options-and-style method starts from, for object i.
Target(i) == [options |-> inst[i].options, style |-> surf[inst[i].element].style]

\* Store the result of an options-and-style method of object i.
Commit(i, st) ==
  /\ inst' = [inst EXCEPT ![i].options = st.options]
  /\ surf' = [surf EXCEPT ![inst[i].element].style = st.style]
  /\ UNCHANGED containers

Objects == 1..Len(inst)

UpdateShadow(i, a, max) ==
  /\ calls < max
  /\ calls' = calls + 1
  /\ Commit(i, updateShadow(Target(i), a))
  /\ last' = Call("updateShadow", i, [arg |-> a], "")
  /\ UNCHANGED <<head, pressed, hook>>

UpdateOuterShadow(i, a, max) ==
  /\ calls < max
  /\ calls' = calls + 1
  /\ Commit(i, updateOuterShadow(Target(i), a))
  /\ last' = Call("updateOuterShadow", i, [arg |-> a], "")
  /\ UNCHANGED <<head, pressed, hook>>

UpdateFrost(i, blur, max) ==
  /\ calls < max
  /\ calls' = calls + 1
  /\ Commit(i, updateFrost(Target(i), blur))
  /\ last' = Call("updateFrost", i, [arg |-> blur], "")
  /\ UNCHANGED <<head, pressed, hook>>

UpdateTint(i, a, max) ==
  /\ calls < max
  /\ calls' = calls + 1
  /\ Commit(i, updateTint(Target(i), a))
  /\ last' = Call("updateTint", i, [arg |-> a], updateTint(Target(i), a).threw)
  /\ UNCHANGED <<head, pressed, hook>>

UpdateDistortion(i, a, max) ==
  /\ calls < max
  /\ calls' = calls + 1
  /\ inst' = [inst EXCEPT ![i] = updateDistortion(@, a)]
  /\ UNCHANGED <<surf, containers>>
  /\ last' = Call("updateDistortion", i, [arg |-> a], "")
  /\ UNCHANGED <<head, pressed, hook>>

-----------------------------------------------------------------------------
(* destroy()                                                                *)

\* Mutant: the removeEventListener calls name no registered listener.
cleanupNothing(g) == g

\* The six removeEventListener calls of this.cleanup.
cleanup(g) == [g EXCEPT !.listening = FALSE]

\* Mutant: the custom properties are left on the element.
destroyKeepsStyles(i) ==
  /\ containers' = removeFilter(containers, i)
  /\ surf' = [surf EXCEPT ![inst[i].element] = [@ EXCEPT !.glass = FALSE]]
  /\ inst' = [inst EXCEPT ![i] =
                [(IF @.cleanup THEN cleanup(@) ELSE @) EXCEPT !.destroyed = TRUE]]

destroy(i) ==
  /\ containers' = removeFilter(containers, i)
  /\ surf' = [surf EXCEPT ![inst[i].element] =
                [@ EXCEPT !.glass = FALSE,
                          !.style = removeAll(@, stylesToRemove)]]
  /\ inst' = [inst EXCEPT ![i] =
                [(IF @.cleanup THEN cleanup(@) ELSE @) EXCEPT !.destroyed = TRUE]]

Destroy(i, max) ==
  /\ calls < max
  /\ calls' = calls + 1
  /\ destroy(i)
  /\ last' = Call("destroy", i, [again |-> inst[i].destroyed], "")
  /\ UNCHANGED <<head, pressed, hook>>

-----------------------------------------------------------------------------
(* Evaluation of the module: the default stylesheet is appended to           *)
(* document.head unless an element with its id is already in the document.  *)

\* Mutant: the stylesheet is appended without looking for it first.
injectStylesAlways(h) == Append(h, styleId)

injectStyles(h) ==
  IF ~getElementById(h, styleId) THEN Append(h, styleId) ELSE h

\* The module is evaluated: by the first import, or again by another copy
\* of the bundle on the same page.  The call records whether the stylesheet
\* was found.
LoadModule(max) ==
  /\ calls < max
  /\ calls' = calls + 1
  /\ head' = injectStyles(head)
  /\ last' = Call("load", 0, [present |-> getElementById(head, styleId)], "")
  /\ UNCHANGED <<inst, surf, containers, pressed, hook>>

-----------------------------------------------------------------------------
(* Dragging.  A pointer event e is [kind, x, y]: a MouseEvent has clientX    *)
(* and clientY and no touches; a TouchEvent has no clientX and its first     *)
(* touch point at (x, y).                                                   *)

\* e.clientX || e.touches?.[0]?.clientX for coordinate c of e: <<n>>, or <<>>
\* for undefined.
clientCoord(e, c) ==
  IF e.kind = "mouse"
  THEN (IF c # 0 THEN <<c>> ELSE <<>>)
  ELSE <<c>>

\* a - b and a + b on numbers; <<>> (undefined or NaN) makes the result NaN.
Minus(a, b) == IF a = <<>> \/ b = <<>> THEN <<>> ELSE <<a[1] - b[1]>>
Plus(a, b) == IF a = <<>> \/ b = <<>> THEN <<>> ELSE <<a[1] + b[1]>>

\* element.style.left = `${n}px`: "NaNpx" is no length and the declaration
\* is left as it was.
setLength(old, n) == IF n = <<>> THEN old ELSE n

\* Mutant: the pointer-down handler also makes the element absolute.
onMouseDownAbsolute(st, e, rect) ==
  [g |-> [st.g EXCEPT !.drag = [isDragging |-> TRUE,
                                startX |-> clientCoord(e, e.x),
                                startY |-> clientCoord(e, e.y),
                                initialX |-> <<rect[1]>>,
                                initialY |-> <<rect[2]>>]],
   s |-> [st.s EXCEPT !.cursor = "grabbing", !.position = "absolute"]]

\* st is [g |-> the object, s |-> its element]; rect is the element's
\* getBoundingClientRect() at the time of the event.
onMouseDown(st, e, rect) ==
  [g |-> [st.g EXCEPT !.drag = [isDragging |-> TRUE,
                                startX |-> clientCoord(e, e.x),
                                startY |-> clientCoord(e, e.y),
                                initialX |-> <<rect[1]>>,
                                initialY |-> <<rect[2]>>]],
   s |-> [st.s EXCEPT !.cursor = "grabbing"]]

\* Mutant: the handler does not return early when no drag is in progress.
onMouseMoveAlways(st, e) ==
  LET d == st.g.drag
      deltaX == Minus(clientCoord(e, e.x), d.startX)
      deltaY == Minus(clientCoord(e, e.y), d.startY)
  IN  [g |-> st.g,
       s |-> [st.s EXCEPT !.position = "absolute",
                          !.left = setLength(@, Plus(d.initialX, deltaX)),
                          !.top = setLength(@, Plus(d.initialY, deltaY))]]

onMouseMove(st, e) ==
  IF ~st.g.drag.isDragging THEN st
  ELSE LET d == st.g.drag
           deltaX == Minus(clientCoord(e, e.x), d.startX)
           deltaY == Minus(clientCoord(e, e.y), d.startY)
       IN  [g |-> st.g,
            s |-> [st.s EXCEPT !.position = "absolute",
                               !.left = setLength(@, Plus(d.initialX, deltaX)),
                               !.top = setLength(@, Plus(d.initialY, deltaY))]]

onMouseUp(st) ==
  [g |-> [st.g EXCEPT !.drag.isDragging = FALSE],
   s |-> [st.s EXCEPT !.cursor = "grab"]]

\* The listener of object i for an event: mousedown and touchstart are
\* registered on the element, the others on the document.
handle(type, st, e, rect) ==
  CASE type = "down" -> onMouseDown(st, e, rect)
    [] type = "move" -> onMouseMove(st, e)
    [] OTHER -> onMouseUp(st)

\* Mutant: the pointer-down listeners are on the document as well.
RECURSIVE dispatchAnywhere(_, _, _, _, _, _)
dispatchAnywhere(w, i, type, target, e, rect) ==
  IF i > Len(w.inst) THEN w
  ELSE LET g == w.inst[i]
           r == handle(type, [g |-> g, s |-> w.surf[g.element]], e, rect)
       IN  IF g.listening
           THEN dispatchAnywhere([inst |-> [w.inst EXCEPT ![i] = r.g],
                                  surf |-> [w.surf EXCEPT ![g.element] = r.s]],
                                 i + 1, type, target, e, rect)
           ELSE dispatchAnywhere(w, i + 1, type, target, e, rect)

\* Deliver an event to the registered listeners of objects i, i+1, ... in the
\* order they were registered; w is [inst, surf].
RECURSIVE dispatch(_, _, _, _, _, _)
dispatch(w, i, type, target, e, rect) ==
  IF i > Len(w.inst) THEN w
  ELSE LET g == w.inst[i]
           hears == g.listening /\ (type = "down" => g.element = target)
           r == handle(type, [g |-> g, s |-> w.surf[g.element]], e, rect)
       IN  IF hears
           THEN dispatch([inst |-> [w.inst EXCEPT ![i] = r.g],
                          surf |-> [w.surf EXCEPT ![g.element] = r.s]],
                         i + 1, type, target, e, rect)
           ELSE dispatch(w, i + 1, type, target, e, rect)

Deliver(type, target, e, rect) ==
  LET w == dispatch([inst |-> inst, surf |-> surf], 1, type, target, e, rect)
  IN  /\ inst' = w.inst
      /\ surf' = w.surf
      /\ UNCHANGED containers

\* mousedown or touchstart on element target, laid out at rect
PointerDown(target, e, rect, max) ==
  /\ calls < max
  /\ calls' = calls + 1
  /\ Deliver("down", target, e, rect)
  /\ last' = Call("pointerdown", 0, [target |-> target, event |-> e, rect |-> rect], "")
  /\ pressed' = [pressed EXCEPT ![target] = <<[event |-> e, rect |-> rect]>>]
  /\ UNCHANGED <<head, hook>>

\* mousemove or touchmove anywhere in the document
PointerMove(e, max) ==
  /\ calls < max
  /\ calls' = calls + 1
  /\ Deliver("move", "", e, <<0, 0>>)
  /\ last' = Call("pointermove", 0, [event |-> e], "")
  /\ UNCHANGED <<head, pressed, hook>>

\* mouseup or touchend anywhere in the document
PointerUp(e, max) ==
  /\ calls < max
  /\ calls' = calls + 1
  /\ Deliver("up", "", e, <<0, 0>>)
  /\ last' = Call("pointerup", 0, [event |-> e], "")
  /\ pressed' = [s \in Surfaces |-> <<>>]
  /\ UNCHANGED <<head, hook>>

-----------------------------------------------------------------------------
(* useLiquidGlass (examples/react/CustomHook.jsx): a component's effect       *)
(* builds the object for the element its ref holds, the effect's cleanup      *)
(* destroys it, and updateEffect forwards to the object held, if any.        *)

\* useRef(null) twice; glassInstanceRef holds the object's index, 0 for null.
useRefs == [elementRef |-> NULL, glassInstanceRef |-> 0, effect |-> FALSE]

\* A call that does nothing but return.
Skip(op, a, max) ==
  /\ calls < max
  /\ calls' = calls + 1
  /\ last' = Call(op, 0, [arg |-> a], "")
  /\ UNCHANGED <<inst, surf, containers, head, pressed, hook>>

\* The effect runs, at mount; el is what React has put in elementRef.current.
Effect(el, o, token, max) ==
  /\ ~hook.effect
  /\ calls < max
  /\ calls' = calls + 1
  /\ IF Truthy(el) /\ hook.glassInstanceRef = 0
     THEN /\ constructor(el, o, token)
          /\ hook' = [elementRef |-> el, glassInstanceRef |-> Len(inst) + 1,
                      effect |-> TRUE]
     ELSE /\ last' = Call("useEffect", 0, [element |-> el], "")
          /\ hook' = [hook EXCEPT !.elementRef = el, !.effect = TRUE]
          /\ UNCHANGED <<inst, surf, containers>>
  /\ UNCHANGED <<head, pressed>>

\* Mutant: the cleanup destroys the object and keeps the ref.
EffectCleanupKeepsRef(max) ==
  /\ hook.effect
  /\ calls < max
  /\ calls' = calls + 1
  /\ IF hook.glassInstanceRef # 0
     THEN /\ destroy(hook.glassInstanceRef)
          /\ last' = Call("destroy", hook.glassInstanceRef,
                          [again |-> inst[hook.glassInstanceRef].destroyed], "")
     ELSE /\ last' = Call("cleanup", 0, [arg |-> UNDEFINED], "")
          /\ UNCHANGED <<inst, surf, containers>>
  /\ hook' = [hook EXCEPT !.effect = FALSE]
  /\ UNCHANGED <<head, pressed>>

\* The function the effect returned runs, at unmount.
EffectCleanup(max) ==
  /\ hook.effect
  /\ calls < max
  /\ calls' = calls + 1
  /\ IF hook.glassInstanceRef # 0
     THEN /\ destroy(hook.glassInstanceRef)
          /\ last' = Call("destroy", hook.glassInstanceRef,
                          [again |-> inst[hook.glassInstanceRef].destroyed], "")
     ELSE /\ last' = Call("cleanup", 0, [arg |-> UNDEFINED], "")
          /\ UNCHANGED <<inst, surf, containers>>
  /\ hook' = [hook EXCEPT !.glassInstanceRef = 0, !.effect = FALSE]
  /\ UNCHANGED <<head, pressed>>

\* updateEffect.shadow(params) and the four others:
\* glassInstanceRef.current?.updateShadow(params)
updateEffectShadow(a, max) ==
  IF hook.glassInstanceRef # 0
  THEN UpdateShadow(hook.glassInstanceRef, a, max)
  ELSE Skip("updateEffect.shadow", a, max)

updateEffectTint(a, max) ==
  IF hook.glassInstanceRef # 0
  THEN UpdateTint(hook.glassInstanceRef, a, max)
  ELSE Skip("updateEffect.tint", a, max)

updateEffectFrost(blur, max) ==
  IF hook.glassInstanceRef # 0
  THEN UpdateFrost(hook.glassInstanceRef, blur, max)
  ELSE Skip("updateEffect.frost", blur, max)

updateEffectDistortion(a, max) ==
  IF hook.glassInstanceRef # 0
  THEN UpdateDistortion(hook.glassInstanceRef, a, max)
  ELSE Skip("updateEffect.distortion", a, max)

updateEffectOuterShadow(a, max) ==
  IF hook.glassInstanceRef # 0
  THEN UpdateOuterShadow(hook.glassInstanceRef, a, max)
  ELSE Skip("updateEffect.outerShadow", a, max)

-----------------------------------------------------------------------------
(* Specifications.                                                          *)

\* The page once the module has been evaluated, before any construction.
Init ==
  /\ inst = <<>>
  /\ surf = [s \in Surfaces |-> FreshSurface]
  /\ containers = <<>>
  /\ head = injectStyles(<<>>)
  /\ pressed = [s \in Surfaces |-> <<>>]
  /\ hook = useRefs
  /\ calls = 0
  /\ last = Call("", 0, [arg |-> UNDEFINED], "")

\* Outputs of Math.random().toString(36).substr(2, 9); 0.5 gives "i".
Tokens == {"k3x9q2m7a", "i"}

MaxCalls == 4

LifeElements == {Element("A"), Element("B"), NULL, UNDEFINED}
LifeConfigs == {<<>>, [draggable |-> Bool(TRUE)]}
LifeShadow == {[blur |-> Str("30px")]}
LifeTint == {[opacity |-> Num("0.9")]}
LifeFrost == {Str("8px")}
LifeDistortion == {[frequency |-> Num("0.02"), strength |-> Num("120")]}
LifeOuter == {[color |-> Str("rgba(0, 0, 0, 0.3)")]}
LifeEvents == {[kind |-> "mouse", x |-> 1, y |-> 2]}
LifeRects == {<<5, 5>>}

\* Any sequence of constructions, updates, destroys and pointer events.
Next ==
  \/ \E el \in LifeElements, o \in LifeConfigs, k \in Tokens : New(el, o, k, MaxCalls)
  \/ \E i \in Objects, a \in LifeShadow : UpdateShadow(i, a, MaxCalls)
  \/ \E i \in Objects, a \in LifeTint : UpdateTint(i, a, MaxCalls)
  \/ \E i \in Objects, b \in LifeFrost : UpdateFrost(i, b, MaxCalls)
  \/ \E i \in Objects, a \in LifeDistortion : UpdateDistortion(i, a, MaxCalls)
  \/ \E i \in Objects, a \in LifeOuter : UpdateOuterShadow(i, a, MaxCalls)
  \/ \E i \in Objects : Destroy(i, MaxCalls)
  \/ \E s \in Surfaces, e \in LifeEvents, r \in LifeRects : PointerDown(s, e, r, MaxCalls)
  \/ \E e \in LifeEvents : PointerMove(e, MaxCalls)
  \/ \E e \in LifeEvents : PointerUp(e, MaxCalls)

Spec == Init /\ [][Next]_vars

-----------------------------------------------------------------------------
(* One draggable element and whole gestures: mouse and touch events, with   *)
(* coordinates that include 0, on an element laid out at either of two       *)
(* places.                                                                  *)

MaxDragCalls == 6

DragElements == {Element("A")}
DragConfigs == {[draggable |-> Bool(TRUE)]}
DragTokens == {"k3x9q2m7a"}
DragEvents ==
  {[kind |-> "mouse", x |-> 100, y |-> 100],
   [kind |-> "mouse", x |-> 130, y |-> 140],
   [kind |-> "mouse", x |-> 0, y |-> 140],
   [kind |-> "touch", x |-> 0, y |-> 100],
   [kind |-> "touch", x |-> 130, y |-> 0]}
DragRects == {<<50, 50>>, <<0, 7>>}

NextDrag ==
  \/ \E el \in DragElements, o \in DragConfigs, k \in DragTokens :
       New(el, o, k, MaxDragCalls)
  \/ \E i \in Objects : Destroy(i, MaxDragCalls)
  \/ \E e \in DragEvents, r \in DragRects : PointerDown("A", e, r, MaxDragCalls)
  \/ \E e \in DragEvents : PointerMove(e, MaxDragCalls)
  \/ \E e \in DragEvents : PointerUp(e, MaxDragCalls)

SpecDrag == Init /\ [][NextDrag]_vars

-----------------------------------------------------------------------------
(* The page from before the module is first evaluated: evaluations of the   *)
(* module, by one or several copies of the bundle, among constructions and   *)
(* destroys.                                                                *)

MaxLoadCalls == 5

\* document.head before the first evaluation: empty, or with the page's own
\* stylesheet.
LoadHeads == {<<>>, <<"app-styles">>}
LoadElements == {Element("A"), Element("B")}
LoadConfigs == {<<>>}
LoadTokens == {"k3x9q2m7a"}

InitLoad ==
  /\ inst = <<>>
  /\ surf = [s \in Surfaces |-> FreshSurface]
  /\ containers = <<>>
  /\ head \in LoadHeads
  /\ pressed = [s \in Surfaces |-> <<>>]
  /\ hook = useRefs
  /\ calls = 0
  /\ last = Call("", 0, [arg |-> UNDEFINED], "")

NextLoad ==
  \/ LoadModule(MaxLoadCalls)
  \/ \E el \in LoadElements, o \in LoadConfigs, k \in LoadTokens :
       New(el, o, k, MaxLoadCalls)
  \/ \E i \in Objects : Destroy(i, MaxLoadCalls)

SpecLoad == InitLoad /\ [][NextLoad]_vars

-----------------------------------------------------------------------------
(* One usage of useLiquidGlass in a component that is mounted, unmounted     *)
(* and mounted again, with updateEffect calls at any moment.                 *)

MaxHookCalls == 5

\* elementRef.current when the effect runs: the rendered element, or null
\* when the component rendered without it.
HookElements == {Element("A"), NULL}
HookConfigs == {<<>>, [frostBlur |-> Str("5px")]}

NextHook ==
  \/ \E el \in HookElements, o \in HookConfigs, k \in Tokens :
       Effect(el, o, k, MaxHookCalls)
  \/ EffectCleanup(MaxHookCalls)
  \/ \E a \in LifeShadow : updateEffectShadow(a, MaxHookCalls)
  \/ \E a \in LifeTint : updateEffectTint(a, MaxHookCalls)
  \/ \E b \in LifeFrost : updateEffectFrost(b, MaxHookCalls)
  \/ \E a \in LifeDistortion : updateEffectDistortion(a, MaxHookCalls)
  \/ \E a \in LifeOuter : updateEffectOuterShadow(a, MaxHookCalls)

SpecHook == Init /\ [][NextHook]_vars

-----------------------------------------------------------------------------
(* One element, few calls, many argument values: the update methods with    *)
(* every subset of their fields, with well-formed, empty, null and          *)
(* mistyped values.                                                         *)

\* The objects whose fields are any subset of DOMAIN vals, field k holding a
\* value of vals[k].
Partials(vals) ==
  UNION { { a \in [D -> UNION {vals[k] : k \in DOMAIN vals}] :
              \A k \in D : a[k] \in vals[k] } : D \in SUBSET DOMAIN vals }

MaxUpdateCalls == 3

UpdElements == {Element("A")}
UpdConfigs ==
  {<<>>,
   [tintOpacity |-> Num("0")],
   [tintColor |-> Str("rgba(10,20,30,0.4)")],
   [tintColor |-> Str("linear-gradient(red, blue)")]}
UpdShadow ==
  Partials([blur |-> {Str("30px"), Str("")},
            spread |-> {Str("-10px")},
            color |-> {Str("rgba(255, 255, 255, 1)"), UNDEFINED},
            offset |-> {Str("4px")}])
UpdOuter ==
  Partials([blur |-> {Str("30px"), NULL},
            color |-> {Str("rgba(0, 0, 0, 0.3)"), Str("")}])
UpdTint ==
  Partials([color |-> {Str("rgba(100, 200, 255, 0.5)"), Str("rgb(1 2 3)"),
                       Str("#fff"), Str(""), NULL},
            opacity |-> {Num("0.9"), Num("0")}])
UpdFrost == {Str("8px"), Str(""), UNDEFINED, NULL}
UpdDistortion ==
  Partials([frequency |-> {Num("0.02"), Num("0")},
            strength |-> {Num("120"), Num("-5")}])

NextUpdate ==
  \/ \E el \in UpdElements, o \in UpdConfigs, k \in Tokens :
       New(el, o, k, MaxUpdateCalls)
  \/ \E i \in Objects, a \in UpdShadow : UpdateShadow(i, a, MaxUpdateCalls)
  \/ \E i \in Objects, a \in UpdTint : UpdateTint(i, a, MaxUpdateCalls)
  \/ \E i \in Objects, b \in UpdFrost : UpdateFrost(i, b, MaxUpdateCalls)
  \/ \E i \in Objects, a \in UpdDistortion : UpdateDistortion(i, a, MaxUpdateCalls)
  \/ \E i \in Objects, a \in UpdOuter : UpdateOuterShadow(i, a, MaxUpdateCalls)
  \/ \E i \in Objects : Destroy(i, MaxUpdateCalls)

SpecUpdate == Init /\ [][NextUpdate]_vars

-----------------------------------------------------------------------------
(* Properties.                                                              *)

\* The fields an argument object supplies: present and not undefined.
Supplied(a) == {k \in DOMAIN a : Given(a[k])}

\* The step just taken was a call of op.
Called(op) == last'.op = op /\ calls' = calls + 1

\* Object i's filter is a child of some container.
InRegistry(i) == \E c \in 1..Len(containers) : \E k \in 1..Len(containers[c]) : containers[c][k] = i

\* C1 (Default completion): right after a successful construction, every
\* field the caller supplied holds the caller's value verbatim, falsy values
\* included, and every other field holds its documented default.
C1_DefaultCompletion ==
  (last.op = "new" /\ last.threw = "") =>
    \A f \in Fields :
      inst[last.self].options[f] =
        IF f \in Supplied(last.args.options)
        THEN last.args.options[f]
        ELSE Defaults[f]

\* C2 (Construction precondition): a construction with a null element throws
\* and changes no object, no element and no container.
C2_NullSurfaceFails ==
  [][ (Called("new") /\ ~Truthy(last'.args.element)) =>
        (last'.threw = "Error" /\ UNCHANGED <<inst, surf, containers>>) ]_vars

\* C2 witness: a construction failed after an earlier one had succeeded.
C2_Witness ==
  /\ last.op = "new" /\ last.threw = "Error" /\ last.args.element = NULL
  /\ Len(inst) = 1 /\ surf[inst[1].element].glass /\ containers = <<(<<1>>)>>

\* C3 (Registry singleton): there is never more than one container, there is
\* one as soon as an object has been constructed, and it stays when objects
\* are destroyed.
C3_RegistrySingleton ==
  /\ Len(containers) <= 1
  /\ Len(inst) >= 1 => Len(containers) = 1

\* C3 witness: two objects constructed and both destroyed; the container is
\* still there, empty.
C3_Witness ==
  /\ Len(inst) = 2
  /\ \A i \in Objects : inst[i].destroyed
  /\ containers = <<(<<>>)>>

\* C4 (Distinct filter graphs): while no object has been destroyed the
\* container holds one entry per object and the entries' ids are pairwise
\* distinct.
C4_DistinctFilterIds ==
  (\A i \in Objects : ~inst[i].destroyed) =>
    /\ \A i \in Objects : InRegistry(i)
    /\ \A i, j \in Objects : i # j => inst[i].svgFilter.id # inst[j].svgFilter.id

\* The argument field -> Configuration field and style variable tables of
\* updateShadow and updateOuterShadow.
ShadowVars ==
  [blur |-> [field |-> "shadowBlur", var |-> "--shadow-blur"],
   spread |-> [field |-> "shadowSpread", var |-> "--shadow-spread"],
   color |-> [field |-> "shadowColor", var |-> "--shadow-color"],
   offset |-> [field |-> "shadowOffset", var |-> "--shadow-offset"]]

OuterVars ==
  [blur |-> [field |-> "outerShadowBlur", var |-> "--outer-shadow-blur"],
   color |-> [field |-> "outerShadowColor", var |-> "--outer-shadow-color"]]

\* A call on object i with argument a changed only the fields and variables
\* that table M gives for the supplied fields of a, to the supplied values.
OnlySupplied(i, a, M) ==
  LET el == inst[i].element
      ks == Supplied(a) \cap DOMAIN M
  IN  /\ \A f \in Fields :
           inst'[i].options[f] =
             IF \E k \in ks : M[k].field = f
             THEN a[CHOOSE k \in ks : M[k].field = f]
             ELSE inst[i].options[f]
      /\ \A v \in StyleVars :
           surf'[el].style[v] =
             IF \E k \in ks : M[k].var = v
             THEN CssText(a[CHOOSE k \in ks : M[k].var = v])
             ELSE surf[el].style[v]
      /\ [inst' EXCEPT ![i].options = inst[i].options] = inst
      /\ [surf' EXCEPT ![el].style = surf[el].style] = surf
      /\ containers' = containers

\* C5 (Update isolation): updateShadow and updateOuterShadow overwrite exactly
\* the supplied Configuration fields and their style variables; every other
\* field and variable and the filter are unchanged.
C5_UpdateIsolation ==
  [][ /\ Called("updateShadow") =>
           OnlySupplied(last'.self, last'.args.arg, ShadowVars)
      /\ Called("updateOuterShadow") =>
           OnlySupplied(last'.self, last'.args.arg, OuterVars) ]_vars

\* C5 witness: updateShadow({blur: "30px"}) on an object whose other shadow
\* fields are still the defaults.
C5_Witness ==
  /\ last.op = "updateShadow" /\ last.args.arg = [blur |-> Str("30px")]
  /\ inst[last.self].options.shadowBlur = Str("30px")
  /\ inst[last.self].options.shadowSpread = Str("-5px")
  /\ surf[inst[last.self].element].style["--shadow-blur"] = "30px"
  /\ surf[inst[last.self].element].style["--shadow-spread"] = "-5px"

\* v is a string of the rgb/rgba triple shape the pattern looks for.
HasTripleShape(v) == v.t = "string" /\ rgbaMatch(v.s) # <<>>

\* The step was updateTint with an opacity and no color.
OpacityOnly == Called("updateTint") /\ Supplied(last'.args.arg) = {"opacity"}

\* C6 (Tint opacity on a parsable color): with a stored tintColor of the
\* triple shape, updateTint({opacity: o}) stores o as tintOpacity, writes
\* rgba(r, g, b, o) of the stored color's channels to --tint-color and leaves
\* the stored tintColor as it was.
C6_OpacityOnParsableColor ==
  [][ (OpacityOnly /\ HasTripleShape(inst[last'.self].options.tintColor)) =>
        LET i == last'.self
            o == last'.args.arg.opacity
            m == rgbaMatch(inst[i].options.tintColor.s)
        IN  /\ inst'[i].options.tintOpacity = o
            /\ inst'[i].options.tintColor = inst[i].options.tintColor
            /\ surf'[inst[i].element].style["--tint-color"] =
                 "rgba(" \o m[1] \o ", " \o m[2] \o ", " \o m[3] \o ", " \o o.s \o ")"
            /\ last'.threw = "" ]_vars

\* C6 witness: the third call is updateTint({opacity: 0.9}) on an object built
\* with tintColor "rgba(10,20,30,0.4)": the style reads rgba(10, 20, 30, 0.9),
\* the stored color is unchanged.
C6_Witness ==
  /\ calls = 3 /\ last.op = "updateTint" /\ last.args.arg = [opacity |-> Num("0.9")]
  /\ inst[last.self].options.tintColor = Str("rgba(10,20,30,0.4)")
  /\ inst[last.self].options.tintOpacity = Num("0.9")
  /\ surf[inst[last.self].element].style["--tint-color"] = "rgba(10, 20, 30, 0.9)"

\* C7 (Tint opacity on an unparsable color): with a stored tintColor that is
\* not of the triple shape, updateTint({opacity: o}) raises nothing, changes
\* no style variable and not the stored tintColor, and stores o.
C7_OpacityOnUnparsableColor ==
  [][ (OpacityOnly /\ ~HasTripleShape(inst[last'.self].options.tintColor)) =>
        LET i == last'.self
        IN  /\ last'.threw = ""
            /\ surf' = surf
            /\ inst'[i].options =
                 [inst[i].options EXCEPT !.tintOpacity = last'.args.arg.opacity] ]_vars

\* C8 (Color wins outright): after updateTint with a color, with or without
\* an opacity, the stored tintColor and --tint-color both equal the color.
C8_ColorWins ==
  [][ (Called("updateTint") /\ "color" \in Supplied(last'.args.arg)) =>
        LET i == last'.self
            c == last'.args.arg.color
        IN  /\ inst'[i].options.tintColor = c
            /\ surf'[inst[i].element].style["--tint-color"] = CssText(c) ]_vars

\* C8 as amended: after updateTint with a color the stored tintColor is the
\* color; --tint-color is the color's text unless the call also carries an
\* opacity and the color is of the triple shape, and then it is
\* rgba(r, g, b, opacity) of the color's channels.
C8_ColorStoredAlphaApplied ==
  [][ (Called("updateTint") /\ "color" \in Supplied(last'.args.arg)) =>
        LET i == last'.self
            a == last'.args.arg
            c == a.color
        IN  /\ inst'[i].options.tintColor = c
            /\ surf'[inst[i].element].style["--tint-color"] =
                 IF "opacity" \in Supplied(a) /\ HasTripleShape(c)
                 THEN "rgba(" \o rgbaMatch(c.s)[1] \o ", " \o rgbaMatch(c.s)[2]
                        \o ", " \o rgbaMatch(c.s)[3] \o ", " \o a.opacity.s \o ")"
                 ELSE CssText(c) ]_vars

\* C8 witness: the README's call with a different alpha: color
\* rgba(100, 200, 255, 0.5) with opacity 0.9.
C8_Witness ==
  /\ last.op = "updateTint"
  /\ last.args.arg = [color |-> Str("rgba(100, 200, 255, 0.5)"), opacity |-> Num("0.9")]
  /\ inst[last.self].options.tintColor = Str("rgba(100, 200, 255, 0.5)")
  /\ surf[inst[last.self].element].style["--tint-color"] = "rgba(100, 200, 255, 0.9)"

\* The attribute of the first stage with the tag.
StageAttr(filter, tag, name) ==
  filter.children[CHOOSE k \in 1..Len(filter.children) : filter.children[k].tag = tag][name]

\* C9 (Distortion round-trip): after updateDistortion the noise stage's
\* baseFrequency and the displacement stage's scale read back the supplied
\* values and the stored fields hold them; a field not supplied leaves its
\* parameter and its stored field alone, and nothing else changes.
C9_DistortionRoundTrip ==
  [][ Called("updateDistortion") =>
        LET i == last'.self
            a == last'.args.arg
            F == "frequency" \in Supplied(a)
            S == "strength" \in Supplied(a)
        IN  /\ StageAttr(inst'[i].svgFilter, "feTurbulence", "baseFrequency") =
                 IF F THEN ToString(a.frequency)
                 ELSE StageAttr(inst[i].svgFilter, "feTurbulence", "baseFrequency")
            /\ StageAttr(inst'[i].svgFilter, "feDisplacementMap", "scale") =
                 IF S THEN ToString(a.strength)
                 ELSE StageAttr(inst[i].svgFilter, "feDisplacementMap", "scale")
            /\ inst'[i].options =
                 [inst[i].options EXCEPT
                    !.noiseFrequency = IF F THEN a.frequency ELSE @,
                    !.distortionStrength = IF S THEN a.strength ELSE @]
            /\ (Supplied(a) = {} => inst' = inst)
            /\ UNCHANGED <<surf, containers>> ]_vars

\* C9 witness: updateDistortion({frequency: 0.02, strength: 120}) read back.
C9_Witness ==
  /\ last.op = "updateDistortion"
  /\ last.args.arg = [frequency |-> Num("0.02"), strength |-> Num("120")]
  /\ StageAttr(inst[last.self].svgFilter, "feTurbulence", "baseFrequency") = "0.02"
  /\ StageAttr(inst[last.self].svgFilter, "feDisplacementMap", "scale") = "120"
  /\ inst[last.self].options.noiseFrequency = Num("0.02")
  /\ inst[last.self].options.distortionStrength = Num("120")

\* C10 (Teardown completeness): right after destroy() the element carries
\* none of the ten custom properties and not the liquid-glass class, and the
\* object's filter is in no container.
C10_TeardownComplete ==
  last.op = "destroy" =>
    LET i == last.self
    IN  /\ \A v \in StyleVars : surf[inst[i].element].style[v] = ""
        /\ ~surf[inst[i].element].glass
        /\ ~InRegistry(i)

\* C10 witness: destroy() of an object that was dragged (its element had been
\* given position: absolute by a pointer move).
C10_Witness ==
  /\ last.op = "destroy"
  /\ inst[last.self].destroyed
  /\ surf[inst[last.self].element].position = "absolute"
  /\ surf[inst[last.self].element].left # <<>>

\* C11 (Repeated teardown): a destroy() of an object that was destroyed
\* before does not raise, leaves every registry container with the children
\* it had, and leaves every other object's filter as it was, in or out of
\* the registry.
C11_RepeatedTeardown ==
  [][ (Called("destroy") /\ last'.args.again) =>
        /\ last'.threw = ""
        /\ containers' = containers
        /\ \A j \in Objects \ {last'.self} :
             /\ inst'[j].svgFilter = inst[j].svgFilter
             /\ InRegistry(j)' = InRegistry(j) ]_vars

\* A second destroy() has run while another object's filter is in the registry.
C11_Witness ==
  /\ last.op = "destroy" /\ last.args.again /\ last.threw = ""
  /\ \E j \in Objects \ {last.self} : ~inst[j].destroyed /\ InRegistry(j)

\* C12 (Teardown restores the surface): when the only object ever built on
\* an element is destroyed, the element's class flag, style variables,
\* cursor, position, left and top are what they were before the
\* construction, which is the fresh element every run starts with.
C12_TeardownRestores ==
  \A i \in Objects :
    ( /\ last.op = "destroy" /\ last.self = i
      /\ \A j \in Objects \ {i} : inst[j].element # inst[i].element )
    => surf[inst[i].element] = FreshSurface

\* The step just taken was a pointer event.
PointerEvent == Called("pointerdown") \/ Called("pointermove") \/ Called("pointerup")

\* Object i is draggable, not destroyed, and in a gesture that began on its
\* element.
Gesturing(i) ==
  /\ Truthy(inst[i].options.draggable) /\ ~inst[i].destroyed
  /\ inst[i].drag.isDragging

\* C13 (Drag translation): a pointer-move at (cx, cy) during the gesture of
\* a draggable object, begun by a pointer-down at (sx, sy) with the element
\* at (ix, iy), writes left = ix + (cx - sx) and top = iy + (cy - sy), for
\* mouse and touch events alike and for coordinates that include 0.
C13_DragTranslation ==
  [][ Called("pointermove") =>
        \A i \in Objects : Gesturing(i) =>
          LET s == inst[i].element
              p == pressed[s][1]
              c == last'.args.event
          IN  /\ surf'[s].left = <<p.rect[1] + (c.x - p.event.x)>>
              /\ surf'[s].top = <<p.rect[2] + (c.y - p.event.y)>> ]_vars

\* C14 (Drag only while Dragging): a step changes an element's position,
\* left or top only if it is a pointer-move and a pointer-down on that
\* element has happened with no pointer-up since; any other pointer-move
\* leaves them as they were.
C14_DragOnlyWhileDragging ==
  [][ \A s \in Surfaces :
        ( \/ surf'[s].position # surf[s].position
          \/ surf'[s].left # surf[s].left
          \/ surf'[s].top # surf[s].top )
        => (Called("pointermove") /\ pressed[s] # <<>>) ]_vars

\* A pointer-move has arrived after the pointer-up that ended a gesture in
\* which the live draggable object had moved its element.
C14_Witness ==
  /\ last.op = "pointermove" /\ pressed["A"] = <<>>
  /\ Len(inst) = 1 /\ ~inst[1].destroyed /\ Truthy(inst[1].options.draggable)
  /\ surf["A"].position = "absolute" /\ surf["A"].cursor = "grab"

\* C15 (Teardown detaches drag): once every object built on an element is
\* destroyed, one of them draggable, no pointer-down, pointer-move or
\* pointer-up changes the element's cursor, position, left or top, whether
\* the object was never dragged, had finished a drag, or was in mid-drag
\* when it was destroyed.
C15_TeardownDetachesDrag ==
  [][ PointerEvent =>
        \A s \in Surfaces :
          ( /\ \E i \in Objects : inst[i].element = s /\ Truthy(inst[i].options.draggable)
            /\ \A i \in Objects : inst[i].element = s => inst[i].destroyed )
          => surf'[s] = surf[s] ]_vars

\* A pointer-move has arrived after a draggable object was destroyed in the
\* middle of a gesture.
C15_Witness ==
  /\ last.op = "pointermove" /\ Len(inst) = 1
  /\ Truthy(inst[1].options.draggable) /\ inst[1].destroyed
  /\ inst[1].drag.isDragging /\ pressed["A"] # <<>>

\* The element's style right after the construction that was the last call,
\* and the object it built.
Built == inst[last.self]
BuiltStyle == surf[Built.element].style

\* C16 as stated (Style projection): right after a successful construction
\* every field but draggable, tintOpacity, noiseFrequency and
\* distortionStrength among them, is held by a style variable of the element
\* other than the filter reference, and the filter reference variable names
\* the object's filter.
C16_EveryFieldProjected ==
  (last.op = "new" /\ last.threw = "") =>
    /\ \A f \in Fields \ {"draggable"} :
         \E v \in StyleVars \ {"--glass-filter-url"} :
           BuiltStyle[v] = CssText(Built.options[f])
    /\ BuiltStyle["--glass-filter-url"] = "url(#" \o Built.svgFilterId \o ")"

\* The style variable of each field that has one.
ProjectedAs ==
  [shadowOffset |-> "--shadow-offset", shadowBlur |-> "--shadow-blur",
   shadowSpread |-> "--shadow-spread", shadowColor |-> "--shadow-color",
   tintColor |-> "--tint-color", frostBlur |-> "--frost-blur",
   outerShadowBlur |-> "--outer-shadow-blur",
   outerShadowColor |-> "--outer-shadow-color",
   borderRadius |-> "--border-radius"]

\* C16 (Style projection, amended): right after a successful construction
\* each of the nine fields shadowOffset, shadowBlur, shadowSpread,
\* shadowColor, tintColor, frostBlur, outerShadowBlur, outerShadowColor and
\* borderRadius is held by its own style variable; noiseFrequency and
\* distortionStrength are the baseFrequency and scale attributes of the
\* object's filter; the filter reference variable is url(#id) for the
\* object's filter id; these ten are the only glass variables set, so
\* tintOpacity has none.
C16_NineFieldsProjected ==
  (last.op = "new" /\ last.threw = "") =>
    /\ \A f \in DOMAIN ProjectedAs :
         BuiltStyle[ProjectedAs[f]] = CssText(Built.options[f])
    /\ \A f, g \in DOMAIN ProjectedAs : ProjectedAs[f] = ProjectedAs[g] => f = g
    /\ StageAttr(Built.svgFilter, "feTurbulence", "baseFrequency") =
         ToString(Built.options.noiseFrequency)
    /\ StageAttr(Built.svgFilter, "feDisplacementMap", "scale") =
         ToString(Built.options.distortionStrength)
    /\ BuiltStyle["--glass-filter-url"] = "url(#" \o Built.svgFilterId \o ")"
    /\ {v \in DOMAIN BuiltStyle : BuiltStyle[v] # ""} =
         {ProjectedAs[f] : f \in DOMAIN ProjectedAs} \cup {"--glass-filter-url"}

\* A construction with a caller's tint color has just succeeded.
C16_Witness ==
  /\ last.op = "new" /\ last.threw = ""
  /\ last.args.options = [tintColor |-> Str("rgba(10,20,30,0.4)")]
  /\ BuiltStyle["--tint-color"] = "rgba(10,20,30,0.4)"

\* C17 (Configuration completeness): in every state, whatever update calls
\* with whatever arguments came before, updateFrost with an absent value
\* included, every field of every object's options is defined.
C17_ConfigurationComplete ==
  \A i \in Objects : \A f \in Fields : inst[i].options[f] # UNDEFINED

\* C18 (Exclusive ownership): a destroy() of one object leaves every other
\* object that is not destroyed with its element's class flag and style
\* variables and with its filter, in or out of the registry, as they were,
\* also when both objects were built on the same element.
C18_ExclusiveOwnership ==
  [][ Called("destroy") =>
        \A j \in Objects \ {last'.self} : ~inst[j].destroyed =>
          /\ surf'[inst[j].element].glass = surf[inst[j].element].glass
          /\ surf'[inst[j].element].style = surf[inst[j].element].style
          /\ inst'[j].svgFilter = inst[j].svgFilter
          /\ InRegistry(j)' = InRegistry(j) ]_vars

\* The update methods.
UpdateOps ==
  {"updateShadow", "updateTint", "updateFrost", "updateDistortion", "updateOuterShadow"}

\* C19 (No validation, no rejection): an update call on an object that is
\* not destroyed completes without raising, whatever its arguments (null,
\* empty or malformed values among them) and whatever tintColor is stored.
C19_NoUpdateRaises ==
  [][ (\E op \in UpdateOps : Called(op)) =>
        (~inst[last'.self].destroyed => last'.threw = "") ]_vars

\* C20 (Stylesheet injected once): after every step document.head holds at
\* most one element with the stylesheet's id; head changes only in an
\* evaluation of the module that found no such element, and then by that
\* one stylesheet appended; no construction and no destroy changes it.
C20_StylesheetOnce ==
  [][ /\ Cardinality({k \in 1..Len(head') : head'[k] = styleId}) <= 1
      /\ head' # head =>
           /\ Called("load") /\ ~last'.args.present
           /\ ~getElementById(head, styleId)
           /\ head' = Append(head, styleId)
      /\ (Called("new") \/ Called("destroy")) => head' = head ]_vars

\* The module has been evaluated again, with the stylesheet in place, after
\* one object was built and destroyed and while another is in use.
C20_Witness ==
  /\ last.op = "load" /\ last.args.present
  /\ Cardinality({k \in 1..Len(head) : head[k] = styleId}) = 1
  /\ \E i, j \in Objects : inst[i].destroyed /\ ~inst[j].destroyed

\* Object i is draggable, not destroyed, and built on element s.
DraggableOn(i, s) ==
  /\ Truthy(inst[i].options.draggable) /\ ~inst[i].destroyed
  /\ inst[i].element = s

Frozen(filter) ==
  [filter EXCEPT !.children[1].baseFrequency = "", !.children[3].scale = ""]

\* Three stages, noise then blur then displacement, wired result to input.
NoiseBlurDisplacement(filter) ==
  /\ Len(filter.children) = 3
  /\ filter.children[1].tag = "feTurbulence"
  /\ filter.children[2].tag = "feGaussianBlur"
  /\ filter.children[3].tag = "feDisplacementMap"
  /\ filter.children[2]["in"] = filter.children[1].result
  /\ filter.children[2].stdDeviation = "0.6"
  /\ filter.children[3].in2 = filter.children[2].result
  /\ filter.children[3]["in"] = "SourceGraphic"

\* C22 (Filter topology is immutable): after every step each object's
\* filter has exactly the three stages noise, blur, displacement in that
\* order and wiring, with the blur's stdDeviation 0.6, and differs from what
\* it was before the step at most in the noise stage's baseFrequency and the
\* displacement stage's scale.
C22_FilterTopology ==
  [][ \A i \in 1..Len(inst') :
        /\ NoiseBlurDisplacement(inst'[i].svgFilter)
        /\ i \in Objects => Frozen(inst'[i].svgFilter) = Frozen(inst[i].svgFilter) ]_vars

\* updateDistortion has changed both adjustable attributes of a filter.
C22_Witness ==
  /\ last.op = "updateDistortion" /\ last.args.arg = [frequency |-> Num("0"), strength |-> Num("-5")]
  /\ inst[last.self].svgFilter.children[1].baseFrequency = "0"
  /\ inst[last.self].svgFilter.children[3].scale = "-5"

\* The names recorded for updateEffect calls made while no object is held.
SkippedUpdates ==
  {"updateEffect.shadow", "updateEffect.tint", "updateEffect.frost",
   "updateEffect.distortion", "updateEffect.outerShadow"}

\* C23 (React hook lifecycle): through every sequence of effects, cleanups
\* and updateEffect calls of one useLiquidGlass usage, at most one object is
\* not destroyed; no object is destroyed a second time; once the cleanup
\* has run every object built so far is destroyed; and an updateEffect call
\* made while glassInstanceRef is null raises nothing and changes neither
\* the objects, the elements nor the registry.
C23_HookLifecycle ==
  [][ /\ Cardinality({i \in 1..Len(inst') : ~inst'[i].destroyed}) <= 1
      /\ Called("destroy") => ~last'.args.again
      /\ ~hook'.effect => \A i \in 1..Len(inst') : inst'[i].destroyed
      /\ (\E op \in SkippedUpdates : Called(op)) =>
           /\ hook.glassInstanceRef = 0
           /\ last'.threw = ""
           /\ UNCHANGED <<inst, surf, containers, hook>>
      /\ (hook.glassInstanceRef = 0 /\ hook' = hook /\ calls' = calls + 1) =>
           last'.op \in SkippedUpdates ]_vars

\* Mounted, unmounted and mounted again: the first object is destroyed and
\* the hook holds the second.
C23_Witness ==
  /\ last.op = "new" /\ Len(inst) = 2
  /\ inst[1].destroyed /\ ~inst[2].destroyed
  /\ hook.glassInstanceRef = 2 /\ hook.effect

\* C24 (No dangling filter reference): in every state, an element whose
\* --glass-filter-url is set names, as url(#id), the id of a filter that is
\* a child of the registry container.
C24_NoDanglingReference ==
  \A s \in Surfaces :
    surf[s].style["--glass-filter-url"] # "" =>
      \E i \in Objects :
        /\ InRegistry(i)
        /\ surf[s].style["--glass-filter-url"] = "url(#" \o inst[i].svgFilter.id \o ")"

\* An element carries the reference of its second object after its first
\* object was destroyed.
C24_Witness ==
  /\ Len(inst) = 2 /\ inst[1].element = "A" /\ inst[2].element = "A"
  /\ inst[1].destroyed /\ ~inst[2].destroyed
  /\ surf["A"].style["--glass-filter-url"] = "url(#" \o inst[2].svgFilterId \o ")"

\* Object i is not destroyed and is the only object built on its element.
AloneOnElement(i) ==
  /\ ~inst[i].destroyed
  /\ \A j \in Objects \ {i} : inst[j].element # inst[i].element

\* C25 (Configuration and rendering stay synchronized): for an object that
\* is not destroyed and alone on its element, in every state each style
\* variable of shadowOffset, shadowBlur, shadowSpread, shadowColor,
\* frostBlur, outerShadowBlur, outerShadowColor and borderRadius holds the
\* CSS text of the stored field (nothing, for a stored null or empty
\* string), and the filter's baseFrequency and scale hold the text of the
\* stored noiseFrequency and distortionStrength; the tint variable is not
\* constrained.
C25_Synchronized ==
  \A i \in Objects : AloneOnElement(i) =>
    /\ \A f \in DOMAIN ProjectedAs \ {"tintColor"} :
         surf[inst[i].element].style[ProjectedAs[f]] = CssText(inst[i].options[f])
    /\ StageAttr(inst[i].svgFilter, "feTurbulence", "baseFrequency") =
         ToString(inst[i].options.noiseFrequency)
    /\ StageAttr(inst[i].svgFilter, "feDisplacementMap", "scale") =
         ToString(inst[i].options.distortionStrength)

\* After updateTint with an opacity only, the tint variable differs from the
\* stored tintColor of the one object on the element.
C25_Witness ==
  /\ Len(inst) = 1 /\ AloneOnElement(1) /\ last.op = "updateTint"
  /\ surf["A"].style["--tint-color"] # CssText(inst[1].options.tintColor)
  /\ surf["A"].style["--tint-color"] = "rgba(255, 255, 255, 0.9)"

\* The number of filters in the registry containers.
RECURSIVE Entries(_)
Entries(cs) == IF cs = <<>> THEN 0 ELSE Len(Head(cs)) + Entries(Tail(cs))

\* C26 (No filter leak): in every state the registry holds as many filters
\* as there are objects built and not destroyed, each of them once; so no
\* repeated destroy() and no update of a destroyed object adds or removes
\* one.
C26_NoFilterLeak ==
  /\ Entries(containers) = Cardinality({i \in Objects : ~inst[i].destroyed})
  /\ \A i \in Objects : InRegistry(i) <=> ~inst[i].destroyed

\* updateDistortion has run on a destroyed object while another object's
\* filter is in the registry.
C26_Witness ==
  /\ last.op = "updateDistortion" /\ inst[last.self].destroyed
  /\ \E j \in Objects : ~inst[j].destroyed /\ InRegistry(j)

\* C27 (Drag isolation between instances): a pointer-move leaves untouched
\* every element on which no pointer-down has happened since the last
\* pointer-up, whatever gestures are in progress on other elements and
\* although every draggable object hears every pointer-move.
C27_DragIsolation ==
  [][ Called("pointermove") =>
        \A s \in Surfaces : pressed[s] = <<>> => surf'[s] = surf[s] ]_vars

\* Two draggable objects, on A and on B; after a pointer-down on A a
\* pointer-move has made A absolute and left B alone.
C27_Witness ==
  /\ last.op = "pointermove" /\ Len(inst) = 2
  /\ DraggableOn(1, "A") /\ DraggableOn(2, "B")
  /\ pressed["A"] # <<>> /\ pressed["B"] = <<>>
  /\ surf["A"].position = "absolute" /\ surf["B"].position = ""

\* C28 (Teardown is permanent): an update call on a destroyed object changes
\* no element's style and no registry container.
C28_TeardownPermanent ==
  [][ ((\E op \in UpdateOps : Called(op)) /\ inst[last'.self].destroyed) =>
        (surf' = surf /\ containers' = containers) ]_vars

====
